---- MODULE Spec2Model ----
(***************************************************************************)
(* A model of vcfkit.VcfFile (src/vcfkit.py): the constructor's header     *)
(* loop and table construction, and the query methods over the table.      *)
(* Text is kept as TLA+ strings and taken apart with Len, SubSeq and \o,   *)
(* so that str.split, str.strip and str.startswith are computed the way    *)
(* Python computes them.                                                   *)
(***************************************************************************)
EXTENDS Integers, Sequences, FiniteSets, TLC

VARIABLES lines, pc, i, self, ret

vars == <<lines, pc, i, self, ret>>

-----------------------------------------------------------------------------
(* Python's str methods, as the constructor uses them.                     *)

\* The characters str.strip() removes when called without an argument.
Whitespace == {" ", "\t", "\n", "\r", "\f"}

Digits == {"0", "1", "2", "3", "4", "5", "6", "7", "8", "9"}

\* s[k] as a one-character string.
Char(s, k) == SubSeq(s, k, k)

\* s[k:] for a 1-based k.
From(s, k) == SubSeq(s, k, Len(s))

\* s.startswith(p)
startswith(s, p) == Len(s) >= Len(p) /\ SubSeq(s, 1, Len(p)) = p

\* s.find(sub) from position k on, 1-based; 0 when sub does not occur.
RECURSIVE find(_, _, _)
find(s, sub, k) ==
    IF k + Len(sub) - 1 > Len(s) THEN 0
    ELSE IF SubSeq(s, k, k + Len(sub) - 1) = sub THEN k
    ELSE find(s, sub, k + 1)

\* sub in s
contains(s, sub) == find(s, sub, 1) # 0

\* s.split(sep): the pieces between the non-overlapping occurrences of sep,
\* left to right; a string without sep is its own single piece.
RECURSIVE split(_, _)
split(s, sep) ==
    LET k == find(s, sep, 1)
    IN  IF k = 0 THEN <<s>>
        ELSE <<SubSeq(s, 1, k - 1)>> \o split(From(s, k + Len(sep)), sep)

\* seq[-1]
Last(seq) == seq[Len(seq)]

\* seq[1:]
Rest(seq) == SubSeq(seq, 2, Len(seq))

RECURSIVE lstrip(_, _)
lstrip(s, chars) ==
    IF Len(s) > 0 /\ Char(s, 1) \in chars THEN lstrip(From(s, 2), chars) ELSE s

RECURSIVE rstrip(_, _)
rstrip(s, chars) ==
    IF Len(s) > 0 /\ Char(s, Len(s)) \in chars
    THEN rstrip(SubSeq(s, 1, Len(s) - 1), chars) ELSE s

\* s.strip(chars); s.strip() is strip(s, Whitespace).
strip(s, chars) == rstrip(lstrip(s, chars), chars)

DigitValue(c) ==
    CASE c = "0" -> 0 [] c = "1" -> 1 [] c = "2" -> 2 [] c = "3" -> 3
      [] c = "4" -> 4 [] c = "5" -> 5 [] c = "6" -> 6 [] c = "7" -> 7
      [] c = "8" -> 8 [] c = "9" -> 9

\* int(s) for a str: surrounding whitespace is dropped, then an optional sign
\* and decimal digits, where single underscores may separate digits.
Unsigned(t) == IF Len(t) > 0 /\ Char(t, 1) \in {"+", "-"} THEN From(t, 2) ELSE t

IsGroupedDigits(t) ==
    /\ Len(t) > 0
    /\ Char(t, 1) \in Digits
    /\ Char(t, Len(t)) \in Digits
    /\ \A k \in 1..Len(t) : Char(t, k) \in Digits \cup {"_"}
    /\ \A k \in 1..(Len(t) - 1) : ~(Char(t, k) = "_" /\ Char(t, k + 1) = "_")

RECURSIVE GroupedValue(_)
GroupedValue(t) ==
    IF Len(t) = 0 THEN 0
    ELSE IF Char(t, Len(t)) = "_" THEN GroupedValue(SubSeq(t, 1, Len(t) - 1))
    ELSE 10 * GroupedValue(SubSeq(t, 1, Len(t) - 1)) + DigitValue(Char(t, Len(t)))

\* Whether int(s) returns (TRUE) or raises ValueError (FALSE).
int_ok(s) == IsGroupedDigits(Unsigned(strip(s, Whitespace)))

int(s) ==
    LET t == strip(s, Whitespace)
    IN  IF Len(t) > 0 /\ Char(t, 1) = "-" THEN 0 - GroupedValue(Unsigned(t))
        ELSE GroupedValue(Unsigned(t))

-----------------------------------------------------------------------------
(* Python values.  A value carries its type, so that "1" and 1 differ.     *)

PyStr(s) == [type |-> "str", val |-> s]
PyInt(n) == [type |-> "int", val |-> n]
PyList(q) == [type |-> "list", val |-> q]
None == [type |-> "NoneType", val |-> ""]

\* A raised exception, as the outcome of a call.
Raise(exc) == [type |-> "raise", val |-> exc]

\* A DataFrame that is a selection of rows of self.vcfdf: its index labels,
\* in table order.
Selection(labels) == [type |-> "DataFrame", val |-> labels]

\* What a call came to: the method, its arguments, and the value it returned
\* or the exception it raised.
Outcome(op, args, out) == [op |-> op, args |-> args, out |-> out]

\* obj.name = value, and d[key] = value: the mapping with that one entry set.
SetItem(d, key, value) ==
    [k \in DOMAIN d \cup {key} |-> IF k = key THEN value ELSE d[k]]

EmptyDict == [k \in {} |-> None]

-----------------------------------------------------------------------------
(* The files the constructor is given: the lines readlines() returns, each *)
(* with its line end.  Meta lines come first, then the column-header line, *)
(* then the data lines; MaxLines bounds the lines besides the column line. *)

MaxLines == 2

MetaLines ==
    { "##fileformat=VCFv4.2\n",
      "##fileDate=20090805\n",
      "##source=caller --min=3\n",
      "##sourceVersion=2\n",
      "##reference=hg19\n",
      "##phasing=partial\n",
      "##contig=<ID=1,species=Homo,length=5,assembly=b37,taxonomy=x>\n",
      "##contig=<ID=1>\n",
      "##contig=<ID=2,length=5k>\n",
      "##INFO=<ID=DP,Number=1,Type=Integer>\n",
      "##INFO=<ID=NS,Number=1,Description=\"ID=dbSNP\">\n",
      "##FILTER=<ID=q10,Description=\"Quality <10\">\n",
      "##FORMAT=<ID=GT,Number=1,Type=String>\n",
      "##ALT=<ID=DEL,Description=\"Deletion\">\n" }

ColumnLine == "#CHROM\tPOS\tID\tREF\tALT\tQUAL\tFILTER\tINFO\n"

DataLines ==
    { "1\t100\trs1\tA\tG\t50\tPASS\tDP=1\n",
      "1\t200\tmicro2\tAT\tA\t9\tq10\tDP=2\n",
      "2\t100\t.\tC\tT\t50\tPASS\tDP=3\n",
      "X\t.\t.\tC\tT\t50\tPASS\tDP=4\n",
      "1\t100\trs1\tA\tG\t50\n",
      "1\t100\trs1\tA\tG\t50\tPASS\tDP=1\tGT\n" }

SeqsUpTo(S, n) == UNION { [1..k -> S] : k \in 0..n }

Files ==
    UNION { { meta \o <<ColumnLine>> \o rows :
                meta \in [1..m -> MetaLines], rows \in SeqsUpTo(DataLines, MaxLines - m) } :
            m \in 0..MaxLines }

-----------------------------------------------------------------------------
(* VcfFile.__init__: the header loop.                                      *)

IsMeta(line) == startswith(line, "##")
IsNotMeta(line) == ~startswith(line, "##")

\* metaList = [line[2:].strip() for line in lines if line.startswith("##")]
metaList ==
    LET metas == SelectSeq(lines, IsMeta)
    IN  [k \in 1..Len(metas) |-> strip(From(metas[k], 3), Whitespace)]

\* The branch of the if/elif chain an item takes: the first prefix, in the
\* order of the chain, that the item starts with; "none" when no branch does.
Prefixes ==
    <<"fileformat", "fileDate", "source", "contig", "reference", "phasing",
      "INFO", "FILTER", "FORMAT">>

Branch(item) ==
    LET hits == { k \in 1..Len(Prefixes) : startswith(item, Prefixes[k]) }
    IN  IF hits = {} THEN "none"
        ELSE Prefixes[CHOOSE k \in hits : \A h \in hits : k <= h]

\* item.split("=")[-1]
ScalarValue(item) == Last(split(item, "="))

\* item.strip(">").split(name + "=")[-1].split(",")[0]
ContigAttr(item, name) ==
    split(Last(split(strip(item, {">"}), name \o "=")), ",")[1]

\* item.split("ID=")[-1].split(",")[0]
DeclId(item) == split(Last(split(item, "ID=")), ",")[1]

\* item.strip(">").split("<")[-1].split(",")[1:]
DeclRest(item) == Rest(split(Last(split(strip(item, {">"}), "<")), ","))

\* The item the loop handles next.
Item == metaList[i + 1]

InLoop == pc = "meta" /\ i < Len(metaList)

\* An iteration in one of the five branches that set a scalar attribute.
ScalarNames == {"fileformat", "fileDate", "source", "reference", "phasing"}

MetaScalar ==
    /\ InLoop
    /\ Branch(Item) \in ScalarNames
    /\ self' = SetItem(self, Branch(Item), ScalarValue(Item))
    /\ i' = i + 1
    /\ UNCHANGED <<lines, pc, ret>>

\* The contig branch: self.contig, then each optional attribute whose name
\* occurs in the item, in the order species, length, assembly, taxonomy;
\* int() of a length that is no integer raises out of the constructor.
WithAttr(obj, item, name, attr) ==
    IF contains(item, name) THEN SetItem(obj, attr, ContigAttr(item, name)) ELSE obj

MetaContig ==
    /\ InLoop
    /\ Branch(Item) = "contig"
    /\ LET s1 == SetItem(self, "contig", Last(split(Item, "contig=")))
           s2 == WithAttr(s1, Item, "species", "contigSpecies")
           raises == contains(Item, "length") /\ ~int_ok(ContigAttr(Item, "length"))
           s3 == IF contains(Item, "length")
                 THEN SetItem(s2, "contigLength", int(ContigAttr(Item, "length")))
                 ELSE s2
           s4 == WithAttr(s3, Item, "assembly", "contigAssembly")
           s5 == WithAttr(s4, Item, "taxonomy", "contigTaxonomy")
       IN  IF raises
           THEN /\ self' = s2
                /\ pc' = "failed"
                /\ ret' = Outcome("__init__", <<>>, Raise("ValueError"))
                /\ UNCHANGED <<lines, i>>
           ELSE /\ self' = s5
                /\ i' = i + 1
                /\ UNCHANGED <<lines, pc, ret>>

\* An iteration in the INFO, FILTER or FORMAT branch: an entry of self.info,
\* self.filter or self.format.
DictOf(branch) ==
    CASE branch = "INFO" -> "info" [] branch = "FILTER" -> "filter"
      [] branch = "FORMAT" -> "format"

MetaDeclaration ==
    /\ InLoop
    /\ Branch(Item) \in {"INFO", "FILTER", "FORMAT"}
    /\ LET dict == DictOf(Branch(Item))
       IN  self' = SetItem(self, dict, SetItem(self[dict], DeclId(Item), DeclRest(Item)))
    /\ i' = i + 1
    /\ UNCHANGED <<lines, pc, ret>>

\* An item no branch of the chain takes.
MetaOther ==
    /\ InLoop
    /\ Branch(Item) = "none"
    /\ i' = i + 1
    /\ UNCHANGED <<lines, pc, self, ret>>

-----------------------------------------------------------------------------
(* VcfFile.__init__: the table.                                            *)

Max(S) == CHOOSE x \in S : \A y \in S : y <= x
Min(S) == CHOOSE x \in S : \A y \in S : x <= y

\* pd.DataFrame(list of lists): every row is as wide as the widest, and a
\* shorter row is filled up with None.
Pad(fields, width) ==
    [k \in 1..width |-> IF k <= Len(fields) THEN PyStr(fields[k]) ELSE None]

\* [line.split("\t") for line in lines if not line.startswith("##")]
SplitLines ==
    LET rest == SelectSeq(lines, IsNotMeta)
    IN  [k \in 1..Len(rest) |-> split(rest[k], "\t")]

\* The frame after its first row became the column labels and was dropped:
\* the labels with the last one stripped, and the other rows under the index
\* labels 1, 2, ... they had in the undropped frame.
Frame(raw) ==
    LET width == Max({ Len(raw[k]) : k \in 1..Len(raw) })
        first == Pad(raw[1], width)
    IN  [ columns |-> [k \in 1..width |->
                          IF k = width THEN strip(first[k].val, Whitespace)
                          ELSE first[k].val],
          index   |-> [k \in 1..(Len(raw) - 1) |-> k],
          data    |-> [k \in 1..(Len(raw) - 1) |-> Pad(raw[k + 1], width)] ]

\* iloc[0] of a frame without rows raises IndexError; last.strip() on the None
\* that fills up a column line shorter than some data line raises
\* AttributeError.  Nothing else is checked.
BuildTable ==
    /\ pc = "meta"
    /\ i = Len(metaList)
    /\ LET raw == SplitLines
           width == Max({ Len(raw[k]) : k \in 1..Len(raw) })
       IN  IF Len(raw) = 0
           THEN /\ pc' = "failed"
                /\ ret' = Outcome("__init__", <<>>, Raise("IndexError"))
                /\ UNCHANGED <<lines, i, self>>
           ELSE IF Pad(raw[1], width)[width] = None
           THEN /\ pc' = "failed"
                /\ ret' = Outcome("__init__", <<>>, Raise("AttributeError"))
                /\ UNCHANGED <<lines, i, self>>
           ELSE /\ pc' = "ready"
                /\ self' = SetItem(self, "vcfdf", Frame(raw))
                /\ UNCHANGED <<lines, i, ret>>

-----------------------------------------------------------------------------
(* Frames and the pandas operations the queries use.                       *)

vcfdf == self["vcfdf"]

HasColumn(df, name) == \E k \in 1..Len(df.columns) : df.columns[k] = name

\* df[name]: the cells of the column, one per row; a label that is no column
\* raises KeyError (HasColumn).  The column labels of the files above are
\* distinct.
Column(df, name) ==
    LET c == CHOOSE k \in 1..Len(df.columns) : df.columns[k] = name
    IN  [r \in 1..Len(df.data) |-> df.data[r][c]]

\* df[mask]: the rows whose mask entry is true, with their index labels.
RECURSIVE Kept(_, _)
Kept(mask, r) ==
    IF r > Len(mask) THEN <<>>
    ELSE (IF mask[r] THEN <<r>> ELSE <<>>) \o Kept(mask, r + 1)

Take(df, mask) ==
    LET keep == Kept(mask, 1)
    IN  [ columns |-> df.columns,
          index   |-> [k \in 1..Len(keep) |-> df.index[keep[k]]],
          data    |-> [k \in 1..Len(keep) |-> df.data[keep[k]]] ]

\* pd.to_numeric of one cell, errors='raise': None and the empty string give
\* NaN, the text of an integer (blanks around it allowed) gives the integer,
\* and text that is no number cannot be parsed.  (The cells of the files above
\* hold no decimal or exponent notation.)
IsNumberText(s) ==
    LET t == Unsigned(strip(s, Whitespace))
    IN  Len(t) > 0 /\ \A k \in 1..Len(t) : Char(t, k) \in Digits

Parses(cell) == cell.type = "NoneType" \/ cell.val = "" \/ IsNumberText(cell.val)

IsNaN(cell) == cell.type = "NoneType" \/ cell.val = ""

\* pd.to_numeric(series) raises ValueError when some cell cannot be parsed.
to_numeric_raises(series) == \E r \in 1..Len(series) : ~Parses(series[r])

\* pd.to_numeric(series) when it does not raise: per row, whether the value
\* is NaN, and the number otherwise.  A comparison with NaN is false.
to_numeric(series) ==
    [r \in 1..Len(series) |->
        IF IsNaN(series[r]) THEN [nan |-> TRUE, n |-> 0]
        ELSE [nan |-> FALSE, n |-> int(series[r].val)]]

-----------------------------------------------------------------------------
(* The class-level tables and the names a method body can resolve.         *)

common_Info_keys ==
    [ AA |-> "ancestral allele",
      AC |-> "allele count in genotypes, for each ALT allele, in the same order as listed",
      AD |-> "Total read depth for each allele",
      ADF |-> "Read depth for each allele on the forward strand",
      ADR |-> "Read depth for each allele on the reverse strand",
      AF |-> "allele frequency for each ALT allele in the same order as listed: use this when estimated from primary data, not called genotypes",
      AN |-> "total number of alleles in called genotypes",
      BQ |-> "RMS base quality at this position",
      CIGAR |-> "cigar string describing how to align an alternate allele to the reference allele",
      DB |-> "dbSNP membership",
      DP |-> "combined depth across samples, e.g. DP=154",
      END |-> "end position of the variant described in this record (esp. for CNVs)",
      H2 |-> "membership in hapmap2",
      H3 |-> "HapMap3 membership",
      MQ |-> "RMS mapping quality, e.g. MQ=52",
      MQ0 |-> "Number of MAPQ == 0 reads covering this record",
      NS |-> "Number of samples with data",
      SB |-> "strand bias at this position",
      SOMATIC |-> "indicates that the record is a somatic mutation, for cancer genomics",
      VALIDATED |-> "validated by follow-up experiment" ]
    @@ ("1000G" :> "1000 Genomes membership")

common_Format_keys ==
    [ AD |-> "Read depth for each allele",
      ADF |-> "Read depth for each allele on the forward strand",
      ADR |-> "Read depth for each allele on the reverse strand",
      DP |-> "Read depth",
      EC |-> "Expected alternate allele counts",
      FT |-> "Filter indicating if this genotype was 'called'",
      GL |-> "Genotype likelihoods",
      GP |-> "Genotype posterior probabilities",
      GQ |-> "Conditional genotype quality",
      GT |-> "Genotype",
      HQ |-> "Haplotype quality",
      MQ |-> "RMS mapping quality",
      PL |-> "Phred-scaled genotype likelihoods rounded to the closest integer",
      PQ |-> "Phasing quality",
      PS |-> "Phase set" ]

\* The names bound at module level.  A method body resolves a bare name among
\* its own parameters and these; the attributes of the class are not among
\* them, and a name found nowhere raises NameError.
ModuleNames == {"os", "gzip", "pd", "csv", "Seq", "GC", "plt", "VcfFile"}

Resolves(name, params) == name \in params \cup ModuleNames

-----------------------------------------------------------------------------
(* The query methods.  Each gives the value returned or the exception      *)
(* raised; none assigns to self.                                           *)

\* df[mask] as the value a query returns.
Select(df, mask) == Selection(Take(df, mask).index)

listChromosomes ==
    IF ~HasColumn(vcfdf, "#CHROM") THEN Raise("KeyError")
    ELSE LET col == Column(vcfdf, "#CHROM")
         IN  PyList({ col[r] : r \in 1..Len(col) })

getChromosomes(chromList) ==
    IF ~HasColumn(vcfdf, "#CHROM") THEN Raise("KeyError")
    ELSE LET col == Column(vcfdf, "#CHROM")
         IN  Select(vcfdf, [r \in 1..Len(col) |-> col[r] \in chromList])

\* qFilter with the FAIL branch testing FILTER == 'FAIL' instead of != 'PASS'.
qFilter_eqFAIL(passed) ==
    IF passed = "PASS"
    THEN IF ~HasColumn(vcfdf, "FILTER") THEN Raise("KeyError")
         ELSE LET col == Column(vcfdf, "FILTER")
              IN  Select(vcfdf, [r \in 1..Len(col) |-> col[r] = PyStr("PASS")])
    ELSE IF passed = "FAIL"
    THEN IF ~HasColumn(vcfdf, "FILTER") THEN Raise("KeyError")
         ELSE LET col == Column(vcfdf, "FILTER")
              IN  Select(vcfdf, [r \in 1..Len(col) |-> col[r] = PyStr("FAIL")])
    ELSE PyStr("Please pass string argument 'PASS' or 'FAIL'")

qFilter(passed) ==
    IF passed = "PASS"
    THEN IF ~HasColumn(vcfdf, "FILTER") THEN Raise("KeyError")
         ELSE LET col == Column(vcfdf, "FILTER")
              IN  Select(vcfdf, [r \in 1..Len(col) |-> col[r] = PyStr("PASS")])
    ELSE IF passed = "FAIL"
    THEN IF ~HasColumn(vcfdf, "FILTER") THEN Raise("KeyError")
         ELSE LET col == Column(vcfdf, "FILTER")
              IN  Select(vcfdf, [r \in 1..Len(col) |-> col[r] # PyStr("PASS")])
    ELSE PyStr("Please pass string argument 'PASS' or 'FAIL'")

\* The rows of chromdf whose position is from lo to hi: an exact position is
\* lo = hi.  pd.to_numeric(chromdf['POS']) is evaluated first.
PositionsWithin(chromdf, lo, hi) ==
    IF ~HasColumn(chromdf, "POS") THEN Raise("KeyError")
    ELSE IF to_numeric_raises(Column(chromdf, "POS")) THEN Raise("ValueError")
    ELSE LET num == to_numeric(Column(chromdf, "POS"))
         IN  Select(chromdf, [r \in 1..Len(num) |->
                                 ~num[r].nan /\ num[r].n >= lo /\ num[r].n <= hi])

getPosition(chrom, pos) ==
    IF chrom.type # "int"
    THEN PyStr("Please enter an int for chromosome as the first argument.")
    ELSE IF ~HasColumn(vcfdf, "#CHROM") THEN Raise("KeyError")
    ELSE IF to_numeric_raises(Column(vcfdf, "#CHROM")) THEN Raise("ValueError")
    ELSE
      LET num == to_numeric(Column(vcfdf, "#CHROM"))
          chromdf == Take(vcfdf, [r \in 1..Len(num) |->
                                     ~num[r].nan /\ num[r].n = chrom.val])
          items == { pos.val[k] : k \in 1..Len(pos.val) }
      IN  IF pos.type = "int" THEN PositionsWithin(chromdf, pos.val, pos.val)
          ELSE IF Len(pos.val) = 2 THEN PositionsWithin(chromdf, Min(items), Max(items))
          ELSE PyStr("Please enter either one location or a list containing a range [start, stop] of locations.")

\* The two tests name common_Info_key and common_Format_key, which nothing
\* binds; the class attributes are common_Info_keys and common_Format_keys.
\* A key found is printed and the method falls off its end.
getKey(key) ==
    IF ~Resolves("common_Info_key", {"self", "key"}) THEN Raise("NameError")
    ELSE IF key \in DOMAIN common_Info_keys THEN None
    ELSE IF ~Resolves("common_Format_key", {"self", "key"}) THEN Raise("NameError")
    ELSE IF key \in DOMAIN common_Format_keys THEN None
    ELSE PyStr("Please enter a valid common key.")

-----------------------------------------------------------------------------
(* The arguments the queries are called with.                              *)

Modes == {"PASS", "FAIL", "pass"}

Chroms == {PyInt(1), PyInt(2), PyStr("chrX")}

Positions ==
    { PyInt(100), PyList(<<100, 200>>), PyList(<<200, 100>>), PyList(<<100, 150, 200>>) }

ChromLists == { {PyStr("1")}, {PyStr("X"), PyStr("2")}, {PyInt(1)} }

Keys == {"DP", "GT", "ZZ"}

-----------------------------------------------------------------------------
(* The state machine: construct a VcfFile from a file, then query it.      *)

Init ==
    /\ lines \in Files
    /\ pc = "meta"
    /\ i = 0
    /\ self = [info |-> EmptyDict, filter |-> EmptyDict, format |-> EmptyDict]
    /\ ret = Outcome("__init__", <<>>, None)

Ready == pc = "ready"

CallListChromosomes ==
    /\ Ready
    /\ ret' = Outcome("listChromosomes", <<>>, listChromosomes)
    /\ UNCHANGED <<lines, pc, i, self>>

CallGetChromosomes ==
    /\ Ready
    /\ \E chromList \in ChromLists :
          ret' = Outcome("getChromosomes", <<chromList>>, getChromosomes(chromList))
    /\ UNCHANGED <<lines, pc, i, self>>

CallQFilter ==
    /\ Ready
    /\ \E passed \in Modes : ret' = Outcome("qFilter", <<passed>>, qFilter(passed))
    /\ UNCHANGED <<lines, pc, i, self>>

CallGetPosition ==
    /\ Ready
    /\ \E chrom \in Chroms, pos \in Positions :
          ret' = Outcome("getPosition", <<chrom, pos>>, getPosition(chrom, pos))
    /\ UNCHANGED <<lines, pc, i, self>>

CallGetKey ==
    /\ Ready
    /\ \E key \in Keys : ret' = Outcome("getKey", <<key>>, getKey(key))
    /\ UNCHANGED <<lines, pc, i, self>>

Next ==
    \/ MetaScalar
    \/ MetaContig
    \/ MetaDeclaration
    \/ MetaOther
    \/ BuildTable
    \/ CallListChromosomes
    \/ CallGetChromosomes
    \/ CallQFilter
    \/ CallGetPosition
    \/ CallGetKey

Spec == Init /\ [][Next]_vars

-----------------------------------------------------------------------------
(* What the specification says, in its own terms.                          *)

\* The index labels of a returned selection, as a set.
Labels(out) == { out.val[k] : k \in 1..Len(out.val) }

AllLabels == { vcfdf.index[k] : k \in 1..Len(vcfdf.index) }

\* The meta lines without their "##" marker, in file order; the first i of
\* them have been processed.
HeaderLines ==
    LET metas == SelectSeq(lines, IsMeta)
    IN  [k \in 1..Len(metas) |-> From(metas[k], 3)]

\* The keyword of a header line: the text up to its first "=".
Keyword(h) == split(h, "=")[1]

\* Everything after the first occurrence of sep, or "" when there is none.
AfterFirst(h, sep) ==
    LET k == find(h, sep, 1)
    IN  IF k = 0 THEN "" ELSE From(h, k + Len(sep))

Recognized ==
    {"fileformat", "fileDate", "source", "reference", "phasing",
     "contig", "INFO", "FILTER", "FORMAT"}

\* The sub-attributes of a structured line: the text between its first "<"
\* and its end, without the closing ">", split on commas.
SubAttributes(h) ==
    split(rstrip(rstrip(AfterFirst(h, "<"), Whitespace), {">"}), ",")

Constructing == pc # "failed"

\* C1: in every loaded table the rows qFilter('PASS') returns and the rows
\* qFilter('FAIL') returns partition the rows of the table: no row is in
\* both, and every row is in one of them.
C1_PassFailPartition ==
    Ready =>
        /\ qFilter("PASS").type = "DataFrame"
        /\ qFilter("FAIL").type = "DataFrame"
        /\ Labels(qFilter("PASS")) \cap Labels(qFilter("FAIL")) = {}
        /\ Labels(qFilter("PASS")) \cup Labels(qFilter("FAIL")) = AllLabels

\* A FAIL call on a table that has rows of both kinds.
C1_Witness ==
    /\ Ready
    /\ ret.op = "qFilter"
    /\ ret.args[1] = "FAIL"
    /\ ret.out.type = "DataFrame"
    /\ Labels(ret.out) # {}
    /\ Labels(ret.out) # AllLabels

\* C2: a data line whose number of tab-separated fields differs from the
\* number of column names makes the load fail; such a file never yields a
\* VcfFile, padded or truncated.
C2_RaggedRowFailsLoad ==
    (\E k \in 2..Len(SplitLines) : Len(SplitLines[k]) # Len(SplitLines[1]))
        => pc # "ready"

\* The text of field c of data row r in the file.
RawField(r, c) == SplitLines[r + 1][c]

\* C3: after load every CHROM cell and every POS cell holds the integer its
\* text denotes, or the null marker when the text denotes none, and every
\* other field of the row keeps its raw text.
C3_ChromPosTyped ==
    Ready =>
        \A r \in 1..Len(vcfdf.data) : \A c \in 1..Len(SplitLines[r + 1]) :
            LET cell == vcfdf.data[r][c]
            IN  IF vcfdf.columns[c] \in {"#CHROM", "POS"}
                THEN IF IsNumberText(RawField(r, c))
                     THEN cell = PyInt(int(RawField(r, c)))
                     ELSE cell = None
                ELSE cell = PyStr(RawField(r, c))

\* Whether a cell's text denotes the integer n, or one from lo to hi.
Denotes(cell, lo, hi) ==
    /\ cell.type = "str"
    /\ IsNumberText(cell.val)
    /\ lo <= int(cell.val)
    /\ int(cell.val) <= hi

\* The labels, in table order, of the rows on chromosome c whose position is
\* between the smaller and the larger of a and b.
RangeRows(c, a, b) ==
    LET chromCol == Column(vcfdf, "#CHROM")
        posCol == Column(vcfdf, "POS")
        inside(r) == /\ Denotes(chromCol[r], c, c)
                     /\ Denotes(posCol[r], Min({a, b}), Max({a, b}))
    IN  SelectSeq(vcfdf.index, inside)

Bounds == {100, 150, 200}

\* C4: for every table, chromosome c and bounds a, b, the range query with
\* (a, b) returns what it returns with (b, a), and that is exactly the rows
\* with CHROM equal to c and min(a, b) <= POS <= max(a, b).
C4_RangeIsSymmetricAndExact ==
    Ready =>
        \A c \in {1, 2} : \A a \in Bounds, b \in Bounds :
            /\ getPosition(PyInt(c), PyList(<<a, b>>))
                 = getPosition(PyInt(c), PyList(<<b, a>>))
            /\ getPosition(PyInt(c), PyList(<<a, b>>)) = Selection(RangeRows(c, a, b))

\* Whether a structured line declares the sub-attribute name.
Declares(h, name) ==
    \E k \in 1..Len(SubAttributes(h)) : startswith(SubAttributes(h)[k], name \o "=")

\* The header lines processed so far whose keyword is kw.
Occurrences(kw) == { k \in 1..i : Keyword(HeaderLines[k]) = kw }

OptionalContigAttrs ==
    { <<"species", "contigSpecies">>, <<"length", "contigLength">>,
      <<"assembly", "contigAssembly">>, <<"taxonomy", "contigTaxonomy">> }

\* C5: the contig metadata held reflects only the last contig declaration: an
\* optional attribute (species, length, assembly, taxonomy) that declaration
\* omits is absent, also when an earlier declaration supplied it.
C5_ContigOverwrites ==
    (Constructing /\ Occurrences("contig") # {}) =>
        LET last == HeaderLines[Max(Occurrences("contig"))]
        IN  \A pair \in OptionalContigAttrs :
                ~Declares(last, pair[1]) => pair[2] \notin DOMAIN self

\* C6: a scalar field (fileformat, fileDate, source, reference, phasing) is
\* present only if a line with that keyword occurred, and then holds all that
\* follows the first "=" of the last such line, without trailing whitespace.
C6_ScalarAfterFirstEquals ==
    Constructing =>
        \A kw \in ScalarNames :
            IF Occurrences(kw) = {} THEN kw \notin DOMAIN self
            ELSE /\ kw \in DOMAIN self
                 /\ self[kw] = rstrip(AfterFirst(HeaderLines[Max(Occurrences(kw))], "="),
                                      Whitespace)

\* C7: the key lookup returns the key's documentation string when the key is
\* in a reference table and an explicit "unknown key" value otherwise; it
\* raises for no key.
C7_KeyLookupNeverRaises ==
    ret.op = "getKey" =>
        LET key == ret.args[1]
            docs == (IF key \in DOMAIN common_Info_keys
                     THEN {common_Info_keys[key]} ELSE {})
                    \cup (IF key \in DOMAIN common_Format_keys
                          THEN {common_Format_keys[key]} ELSE {})
        IN  /\ ret.out.type # "raise"
            /\ docs # {} => (ret.out.type = "str" /\ ret.out.val \in docs)

\* A call with invalid input: a filter mode other than PASS and FAIL, or a
\* chromosome argument that is no number.
InvalidCall(call) ==
    \/ call.op = "qFilter" /\ call.args[1] \notin {"PASS", "FAIL"}
    \/ call.op = "getPosition" /\ call.args[1].type # "int"

\* C8: a query called with invalid input reports a typed failure, told apart
\* from a row subset and never an ordinary string return value, and leaves
\* the record table as it was.
C8_InvalidInputTypedFailure ==
    [][(Ready /\ InvalidCall(ret')) => (ret'.out.type = "raise" /\ self' = self)]_vars

\* No query assigns to self: the table and the header metadata after a call
\* are those before it.
QueriesLeaveSelf == [][Ready => self' = self]_vars

\* C9: the entry of an INFO, FILTER or FORMAT declaration is keyed by the
\* value of its first sub-attribute and holds the remaining sub-attributes of
\* the angle-bracket body, verbatim and in order; also when a later
\* sub-attribute contains "ID=" or "<".
C9_DeclarationKeyAndRest ==
    (Constructing /\ i > 0 /\ Keyword(HeaderLines[i]) \in {"INFO", "FILTER", "FORMAT"}) =>
        LET attrs == SubAttributes(HeaderLines[i])
            key == AfterFirst(attrs[1], "=")
            dict == self[DictOf(Keyword(HeaderLines[i]))]
        IN  key \in DOMAIN dict /\ dict[key] = Rest(attrs)

\* C10: processing a header line whose keyword is not exactly one of the nine
\* recognized keywords changes no field of the header metadata and raises no
\* error, also when the keyword begins with a recognized one.
C10_UnrecognizedIgnored ==
    [][(InLoop /\ Keyword(HeaderLines[i + 1]) \notin Recognized)
          => (self' = self /\ pc' # "failed")]_vars

====
